---- MODULE Spec2Model ----
(***************************************************************************)
(* A model of src/pdf1_html.py: PDFToHTMLConverter.convert_pdf_to_html and *)
(* the methods it calls (extract_pdf_content, extract_images_from_page,    *)
(* extract_tables_with_images, is_image_in_cell, convert_to_html).         *)
(*                                                                         *)
(* Strings are sequences of one-character strings, so that splitting,      *)
(* stripping, escaping and the substring test of the code are computed.    *)
(* Markup is kept as a sequence of units (table, img, text, page open and  *)
(* close) instead of one flat string: the fixed tag text between the       *)
(* variable parts is not modelled.  A bbox is <<x0, y0, x1, y1>>; a centre *)
(* (a + b) / 2 is kept doubled, as a + b, to stay in the integers.         *)
(***************************************************************************)
EXTENDS Integers, Sequences, FiniteSets, TLC

VARIABLES
    doc,               \* the source document as the collaborators report it
    pc,                \* position in convert_pdf_to_html and its callees
    run,               \* 1: the conversion; 2: the page pipeline run again
    page_num,          \* extract_pdf_content: the page being extracted
    page_images,       \* the image pool of every page extracted so far
    table_index,       \* extract_tables_with_images: the loop index
    tables_html,       \* extract_tables_with_images: the fragments so far
    standalone_images, \* extract_pdf_content: the current page's list
    pages_content,     \* extract_pdf_content: the result list
    page_index,        \* convert_to_html: the page being emitted
    html_content,      \* convert_to_html: the markup emitted so far
    output_file,       \* what is stored at output_path
    writes,            \* how many times output_path was written
    error,             \* the exception that left convert_pdf_to_html
    first_html         \* the markup of run 1, kept to compare with run 2

vars == <<doc, pc, run, page_num, page_images, table_index, tables_html,
          standalone_images, pages_content, page_index, html_content,
          output_file, writes, error, first_html>>

\* Python's None where a str is expected, and where a rectangle is expected
None == <<"None">>
NoRect == <<>>
NotWritten == "NotWritten"

\* ------------------------------------------------------------------ strings

RECURSIVE Concat(_)
Concat(ss) == IF ss = <<>> THEN <<>> ELSE Head(ss) \o Concat(Tail(ss))

\* needle in haystack (Python's `in` on str)
IsSubstring(needle, hay) ==
    \E i \in 0..(Len(hay) - Len(needle)) :
        \A j \in 1..Len(needle) : hay[i + j] = needle[j]

EscapeChar(c) ==
    CASE c = "&" -> <<"&", "a", "m", "p", ";">>
      [] c = "<" -> <<"&", "l", "t", ";">>
      [] c = ">" -> <<"&", "g", "t", ";">>
      [] c = "\"" -> <<"&", "q", "u", "o", "t", ";">>
      [] c = "'" -> <<"&", "#", "x", "2", "7", ";">>
      [] OTHER -> <<c>>

\* html.escape
Escape(s) == Concat([i \in 1..Len(s) |-> EscapeChar(s[i])])

Whitespace == {" ", "\n", "\t"}

RECURSIVE LStrip(_)
LStrip(s) == IF s # <<>> /\ Head(s) \in Whitespace THEN LStrip(Tail(s)) ELSE s

RECURSIVE RStrip(_)
RStrip(s) ==
    IF s # <<>> /\ s[Len(s)] \in Whitespace
    THEN RStrip(SubSeq(s, 1, Len(s) - 1))
    ELSE s

\* str.strip()
Strip(s) == RStrip(LStrip(s))

\* str.split("\n\n"): the separators are found left to right, not overlapping
RECURSIVE SplitBlank(_, _)
SplitBlank(s, cur) ==
    IF s = <<>> THEN <<cur>>
    ELSE IF Len(s) >= 2 /\ s[1] = "\n" /\ s[2] = "\n"
    THEN <<cur>> \o SplitBlank(SubSeq(s, 3, Len(s)), <<>>)
    ELSE SplitBlank(Tail(s), Append(cur, Head(s)))

\* .replace("\n", "<br>")
BreakLines(s) ==
    Concat([i \in 1..Len(s) |->
              IF s[i] = "\n" THEN <<"<", "b", "r", ">">> ELSE <<s[i]>>])

\* `if x:` on a str or None
Truthy(x) == x # None /\ x # <<>>

\* ----------------------------------------------------------------- geometry

\* twice the x (y) centre of an image: (bbox[0] + bbox[2]) / 2, doubled
CenterX2(image) == image.bbox[1] + image.bbox[3]
CenterY2(image) == image.bbox[2] + image.bbox[4]

is_image_in_cell_strict(image, cell_bbox) ==
    /\ 2 * cell_bbox[1] < CenterX2(image) /\ CenterX2(image) < 2 * cell_bbox[3]
    /\ 2 * cell_bbox[2] < CenterY2(image) /\ CenterY2(image) < 2 * cell_bbox[4]

is_image_in_cell(image, cell_bbox) ==
    /\ 2 * cell_bbox[1] <= CenterX2(image) /\ CenterX2(image) <= 2 * cell_bbox[3]
    /\ 2 * cell_bbox[2] <= CenterY2(image) /\ CenterY2(image) <= 2 * cell_bbox[4]

\* ------------------------------------------------ extract_images_from_page

\* One entry of page.get_images() with what the collaborators do with it:
\*   outcome "ok"            extract_image, Image.open, save, b64encode succeed
\*           "empty"         extract_image returns a falsy value
\*           "decode_error"  Image.open / save / b64encode / get_drawings raises
\*           "extract_error" extract_image itself raises
\*   rect    what get_image_rect returns: a rectangle, or NoRect
ImageRecord(raw, page_rect) ==
    LET bbox == IF raw.rect # NoRect THEN raw.rect
                ELSE <<0, 0, page_rect[3] - page_rect[1], page_rect[4] - page_rect[2]>>
    IN  [data |-> raw.data, format |-> raw.ext, bbox |-> bbox,
         width |-> bbox[3] - bbox[1], height |-> bbox[4] - bbox[2]]

\* The loop of extract_images_from_page over image_list, from `images` on:
\* the list built, and whether an exception left the loop.
RECURSIVE ExtractLoop(_, _, _)
ExtractLoop(image_list, page_rect, images) ==
    IF image_list = <<>> THEN [images |-> images, raised |-> FALSE]
    ELSE LET raw == Head(image_list) IN
         CASE raw.outcome = "extract_error" ->
                  [images |-> images, raised |-> TRUE]
           [] raw.outcome = "empty" ->
                  ExtractLoop(Tail(image_list), page_rect, images)
           [] raw.outcome = "decode_error" ->
                  ExtractLoop(Tail(image_list), page_rect, images)
           [] OTHER ->
                  ExtractLoop(Tail(image_list), page_rect,
                              Append(images, ImageRecord(raw, page_rect)))

extract_images_from_page(page) == ExtractLoop(page.image_list, page.rect, <<>>)

\* ---------------------------------------------- extract_tables_with_images

SortKeyTop(image) == 2 * image.bbox[2]

\* key=lambda x: (x["bbox"][1] + x["bbox"][3]) / 2, doubled
SortKey(image) == CenterY2(image)

\* Insert x behind every element whose key is not larger: a stable insertion.
RECURSIVE InsertByKey(_, _)
InsertByKey(x, s) ==
    IF s = <<>> THEN <<x>>
    ELSE IF SortKey(x) < SortKey(Head(s)) THEN <<x>> \o s
    ELSE <<Head(s)>> \o InsertByKey(x, Tail(s))

RECURSIVE SortedFrom(_, _)
SortedFrom(rest, acc) ==
    IF rest = <<>> THEN acc
    ELSE SortedFrom(Tail(rest), InsertByKey(Head(rest), acc))

\* sorted(page_images, key=...): a new list, stable
Sorted(images) == SortedFrom(images, <<>>)

NoImg == <<>>

CellText(cell) == IF Truthy(cell) THEN Escape(cell) ELSE <<>>

HeaderRow(row) ==
    [kind |-> "th",
     cells |-> [c \in 1..Len(row) |-> [img |-> NoImg, text |-> CellText(row[c])]]]

\* One data row with the head of the queue (NoImg when none was popped).
DataRow(row, img) ==
    [kind |-> "td",
     cells |-> [c \in 1..Len(row) |->
                  [img |-> IF c = 1 THEN img ELSE NoImg, text |-> CellText(row[c])]]]

Pops_when_named(row, queue) == Len(row) > 0 /\ Truthy(row[1]) /\ queue # <<>>

\* `if sorted_images:` is reached once per row, in the column 0 branch
Pops(row, queue) == Len(row) > 0 /\ queue # <<>>

\* The loop over range(1, len(table)): the markup rows and the queue left.
RECURSIVE DataRows(_, _, _)
DataRows(rows, queue, out) ==
    IF rows = <<>> THEN [rows |-> out, queue |-> queue]
    ELSE LET row == Head(rows)
             pop == Pops(row, queue)
         IN  DataRows(Tail(rows),
                      IF pop THEN Tail(queue) ELSE queue,
                      Append(out, DataRow(row, IF pop THEN Head(queue).data ELSE NoImg)))

\* The body of the table loop for a table that is not empty: table_html.
TableHtml(table, pool) ==
    <<HeaderRow(table[1])>>
        \o DataRows(Tail(table), Sorted(pool), <<>>).rows

\* The pool after one table: sorted() copied it and pop(0) drained the copy.
PoolAfterTable_in_place(table, pool) ==
    DataRows(Tail(table), Sorted(pool), <<>>).queue

PoolAfterTable(table, pool) == pool

\* ------------------------------------------------------ extract_pdf_content

\* The inner loop over page.find_tables(), with its break
RECURSIVE InSomeTable(_, _)
InSomeTable(img, found_tables) ==
    IF found_tables = <<>> THEN FALSE
    ELSE IF is_image_in_cell(img, Head(found_tables).bbox) THEN TRUE
    ELSE InSomeTable(img, Tail(found_tables))

RECURSIVE StandaloneLoop(_, _, _)
StandaloneLoop(images, found_tables, out) ==
    IF images = <<>> THEN out
    ELSE StandaloneLoop(Tail(images), found_tables,
                        IF InSomeTable(Head(images), found_tables)
                        THEN out ELSE Append(out, Head(images)))

StandaloneImages(images, found_tables) ==
    IF images # <<>> THEN StandaloneLoop(images, found_tables, <<>>) ELSE <<>>

\* ---------------------------------------------------------- convert_to_html

\* `data in table`: the payload occurs somewhere in the fragment's text
DataInTable(data, table) ==
    \E r \in 1..Len(table) : \E c \in 1..Len(table[r].cells) :
        \/ IsSubstring(data, table[r].cells[c].img)
        \/ IsSubstring(data, table[r].cells[c].text)

UsedInTables(img, tables) == \E t \in 1..Len(tables) : DataInTable(img.data, tables[t])

RECURSIVE TableUnits(_)
TableUnits(tables) ==
    IF tables = <<>> THEN <<>>
    ELSE <<[kind |-> "table", table |-> Head(tables)]>> \o TableUnits(Tail(tables))

RECURSIVE ImageUnits(_, _)
ImageUnits(images, tables) ==
    IF images = <<>> THEN <<>>
    ELSE (IF UsedInTables(Head(images), tables) THEN <<>>
          ELSE <<[kind |-> "img", data |-> Head(images).data, format |-> Head(images).format]>>)
         \o ImageUnits(Tail(images), tables)

RECURSIVE BlockUnits(_)
BlockUnits(blocks) ==
    IF blocks = <<>> THEN <<>>
    ELSE (IF Strip(Head(blocks)) # <<>>
          THEN <<[kind |-> "text", text |-> BreakLines(Escape(Strip(Head(blocks))))]>>
          ELSE <<>>)
         \o BlockUnits(Tail(blocks))

TextUnits(text) ==
    IF Truthy(text) THEN BlockUnits(SplitBlank(text, <<>>)) ELSE <<>>

PageHtml_images_first(page) ==
    <<[kind |-> "page", number |-> page.page_number]>>
        \o ImageUnits(page.images, page.tables)
        \o TableUnits(page.tables)
        \o TextUnits(page.text)
        \o <<[kind |-> "end", number |-> page.page_number]>>

\* page_html of one iteration of the loop over pages_content
PageHtml(page) ==
    <<[kind |-> "page", number |-> page.page_number]>>
        \o TableUnits(page.tables)
        \o ImageUnits(page.images, page.tables)
        \o TextUnits(page.text)
        \o <<[kind |-> "end", number |-> page.page_number]>>

\* ------------------------------------------------------------------- inputs

MaxImages == 2      \* images on the page of a one-table document
MaxDataRows == 2    \* data rows of the table of a one-table document
MaxTables == 2      \* tables on the page of a many-table document
MaxPages == 2       \* pages of a many-page document

SeqUpTo(S, n) == UNION {[1..k -> S] : k \in 0..n}

PageRect == <<0, 0, 4, 4>>

RawImage(outcome, data, rect) ==
    [outcome |-> outcome, data |-> data, ext |-> "png", rect |-> rect]

\* centres (1, 1), (3.5, 0.5), (1, 3), (3, 1); the first and last tie on y
ImgA == RawImage("ok", <<"A">>, <<0, 0, 2, 2>>)
ImgB == RawImage("ok", <<"B">>, <<3, 0, 4, 1>>)
ImgAB == RawImage("ok", <<"A", "B">>, <<0, 2, 2, 4>>)
ImgC == RawImage("ok", <<"C">>, <<2, 0, 4, 2>>)
ImgNoRect == RawImage("ok", <<"D">>, NoRect)
ImgEmpty == RawImage("empty", <<"E">>, NoRect)
ImgUndecodable == RawImage("decode_error", <<"F">>, <<0, 0, 2, 2>>)
ImgUnextractable == RawImage("extract_error", <<"G">>, <<0, 0, 2, 2>>)

ImageChoices == {ImgA, ImgB, ImgAB, ImgC}

BoxLeftTop == <<0, 0, 2, 2>>
BoxRightBottom == <<1, 1, 4, 4>>
TableBoxes == {BoxLeftTop, BoxRightBottom}

HeaderH == <<<<"H">>>>
RowEmpty == <<>>
RowA == <<<<"a">>>>
RowNoneLt == <<None, <<"<">>>>
RowChoices == {RowEmpty, RowA, RowNoneLt}

Table(rows, bbox) == [rows |-> rows, bbox |-> bbox]

TableChoices ==
    {Table(<<>>, BoxLeftTop),
     Table(<<<<>>>>, BoxRightBottom),
     Table(<<HeaderH, RowA>>, BoxLeftTop),
     Table(<<HeaderH, RowNoneLt>>, BoxRightBottom),
     Table(<<HeaderH, RowA, RowEmpty, RowA>>, BoxRightBottom)}

TextTwoBlocks == <<"x", "\n", "\n", "\n", "y", "&", "\n", "z", " ">>
TextBlankBlock == <<" ", "\n", "\n", "\t", "\n", "\n", "w">>
TextChoices == {None, <<>>, TextTwoBlocks}

Page(image_list, tables, text, fail) ==
    [image_list |-> image_list, rect |-> PageRect, tables |-> tables,
     text |-> text, fail |-> fail]

Document(exists, open_fails, pages) ==
    [exists |-> exists, open_fails |-> open_fails, pages |-> pages]

\* one page, one table with a header: every pool and every shape of data rows
OneTableDocs ==
    {Document(TRUE, FALSE,
              <<Page(il, <<Table(<<HeaderH>> \o d, b)>>, None, "none")>>) :
        il \in SeqUpTo(ImageChoices, MaxImages),
        d \in SeqUpTo(RowChoices, MaxDataRows),
        b \in TableBoxes}

\* one page, several tables, at most one image, every text
ManyTableDocs ==
    {Document(TRUE, FALSE, <<Page(il, ts, tx, "none")>>) :
        il \in {<<>>} \cup {<<i>> : i \in ImageChoices \cup {ImgNoRect}},
        ts \in SeqUpTo(TableChoices, MaxTables),
        tx \in TextChoices}

PageChoices ==
    {Page(<<ImgAB, ImgUndecodable, ImgB>>, <<>>, TextTwoBlocks, "none"),
     Page(<<ImgAB, ImgB, ImgC>>, <<Table(<<HeaderH, RowA>>, BoxLeftTop)>>,
          TextBlankBlock, "none"),
     Page(<<ImgEmpty, ImgNoRect>>, <<Table(<<HeaderH, RowNoneLt>>, BoxRightBottom)>>,
          None, "none"),
     Page(<<ImgA, ImgUnextractable, ImgB>>, <<>>, <<"t">>, "none"),
     Page(<<ImgA>>, <<>>, None, "tables"),
     Page(<<>>, <<Table(<<HeaderH>>, BoxLeftTop)>>, <<"t">>, "text")}

\* several pages, with the failures of the collaborators
ManyPageDocs ==
    {Document(TRUE, FALSE, ps) : ps \in SeqUpTo(PageChoices, MaxPages)}
        \cup {Document(e, o, <<p>>) : e \in BOOLEAN, o \in BOOLEAN, p \in PageChoices}

Docs == OneTableDocs \cup ManyTableDocs \cup ManyPageDocs

\* ------------------------------------------------------------ state machine

NoError == <<>>

Init ==
    /\ doc \in Docs
    /\ pc = "start"
    /\ run = 1
    /\ page_num = 1
    /\ page_images = <<>>
    /\ table_index = 1
    /\ tables_html = <<>>
    /\ standalone_images = <<>>
    /\ pages_content = <<>>
    /\ page_index = 1
    /\ html_content = <<>>
    /\ output_file = <<>>
    /\ writes = 0
    /\ error = NoError
    /\ first_html = <<>>

CurPage == doc.pages[page_num]

\* An exception inside the try of extract_pdf_content that is swallowed
\* there: the pages extracted so far are returned.
ExtractFailed_swallowed(cause) ==
    /\ pc' = "convert"
    /\ page_index' = 1
    /\ UNCHANGED <<doc, run, page_num, page_images, table_index, tables_html,
                   standalone_images, pages_content, html_content, output_file,
                   writes, error, first_html>>

\* An exception inside the try of extract_pdf_content: wrapped there, and
\* wrapped again by the except clause of convert_pdf_to_html.
ExtractFailed(cause) ==
    /\ pc' = "failed"
    /\ error' = <<"Error converting PDF to HTML", "Error extracting PDF content", cause>>
    /\ UNCHANGED <<doc, run, page_num, page_images, table_index, tables_html,
                   standalone_images, pages_content, page_index, html_content,
                   output_file, writes, first_html>>

\* convert_pdf_to_html up to the try
Start ==
    /\ pc = "start"
    /\ IF doc.exists
       THEN pc' = "open" /\ error' = error
       ELSE pc' = "failed" /\ error' = <<"FileNotFoundError">>
    /\ UNCHANGED <<doc, run, page_num, page_images, table_index, tables_html,
                   standalone_images, pages_content, page_index, html_content,
                   output_file, writes, first_html>>

\* fitz.open and pdfplumber.open; with no page, the loop body never runs
OpenDocument ==
    /\ pc = "open"
    /\ IF doc.open_fails THEN ExtractFailed("open")
       ELSE /\ pc' = IF doc.pages = <<>> THEN "convert" ELSE "images"
            /\ UNCHANGED <<doc, run, page_num, page_images, table_index,
                           tables_html, standalone_images, pages_content,
                           page_index, html_content, output_file, writes, error,
                           first_html>>

\* page_images = self.extract_images_from_page(pdf_doc, page_num)
ExtractImages ==
    /\ pc = "images"
    /\ LET r == extract_images_from_page(CurPage) IN
       IF r.raised THEN ExtractFailed("extract_image")
       ELSE /\ page_images' = Append(page_images, r.images)
            /\ pc' = "tables"
            /\ UNCHANGED <<doc, run, page_num, table_index, tables_html,
                           standalone_images, pages_content, page_index,
                           html_content, output_file, writes, error, first_html>>

\* extract_tables_with_images up to its loop
ExtractTables ==
    /\ pc = "tables"
    /\ IF CurPage.fail = "tables" THEN ExtractFailed("extract_tables")
       ELSE /\ tables_html' = <<>>
            /\ table_index' = 1
            /\ pc' = "table_loop"
            /\ UNCHANGED <<doc, run, page_num, page_images, standalone_images,
                           pages_content, page_index, html_content, output_file,
                           writes, error, first_html>>

SkipsTable_empty_header(table) == table = <<>> \/ table[1] = <<>>

\* `if not table: continue`
SkipsTable(table) == table = <<>>

\* one iteration of `for table_index, table in enumerate(tables)`
TableIteration ==
    /\ pc = "table_loop"
    /\ table_index <= Len(CurPage.tables)
    /\ LET table == CurPage.tables[table_index].rows IN
       IF SkipsTable(table)
       THEN UNCHANGED <<tables_html, page_images>>
       ELSE /\ tables_html' = Append(tables_html, TableHtml(table, page_images[page_num]))
            /\ page_images' = [page_images EXCEPT
                                 ![page_num] = PoolAfterTable(table, @)]
    /\ table_index' = table_index + 1
    /\ UNCHANGED <<doc, pc, run, page_num, standalone_images, pages_content,
                   page_index, html_content, output_file, writes, error, first_html>>

\* return tables_html, and the classification of the page's images
ClassifyImages ==
    /\ pc = "table_loop"
    /\ table_index > Len(CurPage.tables)
    /\ standalone_images' = StandaloneImages(page_images[page_num], CurPage.tables)
    /\ pc' = "content"
    /\ UNCHANGED <<doc, run, page_num, page_images, table_index, tables_html,
                   pages_content, page_index, html_content, output_file, writes,
                   error, first_html>>

\* content = {...}; pages_content.append(content); the next page, if any
\* (in run 2 the next page's pool is the one already extracted)
AppendContent ==
    /\ pc = "content"
    /\ IF CurPage.fail = "text" THEN ExtractFailed("extract_text")
       ELSE /\ pages_content' = Append(pages_content,
                                       [text |-> CurPage.text,
                                        tables |-> tables_html,
                                        images |-> standalone_images,
                                        page_number |-> page_num])
            /\ IF page_num < Len(doc.pages)
               THEN /\ page_num' = page_num + 1
                    /\ pc' = IF run = 1 THEN "images" ELSE "tables"
                    /\ page_index' = page_index
               ELSE /\ page_num' = page_num
                    /\ pc' = "convert"
                    /\ page_index' = 1
            /\ UNCHANGED <<doc, run, page_images, table_index, tables_html,
                           standalone_images, html_content, output_file, writes,
                           error, first_html>>

\* one iteration of `for page in pages_content` of convert_to_html
ConvertPage ==
    /\ pc = "convert"
    /\ page_index <= Len(pages_content)
    /\ html_content' = html_content \o PageHtml(pages_content[page_index])
    /\ page_index' = page_index + 1
    /\ UNCHANGED <<doc, pc, run, page_num, page_images, table_index, tables_html,
                   standalone_images, pages_content, output_file, writes, error,
                   first_html>>

\* return self.html_template.format(...)
FinishConvert ==
    /\ pc = "convert"
    /\ page_index > Len(pages_content)
    /\ pc' = IF run = 1 THEN "write" ELSE "done"
    /\ UNCHANGED <<doc, run, page_num, page_images, table_index, tables_html,
                   standalone_images, pages_content, page_index, html_content,
                   output_file, writes, error, first_html>>

\* with open(output_path, "w") as f: f.write(html_content)
WriteOutput ==
    /\ pc = "write"
    /\ output_file' = html_content
    /\ writes' = writes + 1
    /\ pc' = "done"
    /\ UNCHANGED <<doc, run, page_num, page_images, table_index, tables_html,
                   standalone_images, pages_content, page_index, html_content,
                   error, first_html>>

\* A caller runs the page pipeline (extract_tables_with_images, the
\* classification, convert_to_html) again on the pools already extracted.
RunAgain ==
    /\ pc = "done"
    /\ run = 1
    /\ run' = 2
    /\ first_html' = html_content
    /\ html_content' = <<>>
    /\ pages_content' = <<>>
    /\ page_num' = 1
    /\ page_index' = 1
    /\ pc' = IF doc.pages = <<>> THEN "convert" ELSE "tables"
    /\ UNCHANGED <<doc, page_images, table_index, tables_html, standalone_images,
                   output_file, writes, error>>

Next ==
    \/ Start
    \/ OpenDocument
    \/ ExtractImages
    \/ ExtractTables
    \/ TableIteration
    \/ ClassifyImages
    \/ AppendContent
    \/ ConvertPage
    \/ FinishConvert
    \/ WriteOutput
    \/ RunAgain

Spec == Init /\ [][Next]_vars

\* ---------------------------------------------------- vocabulary of the claims

\* Point-in-rectangle, edges inclusive, on the doubled centre of a bbox.
CentreInside(bbox, rect) ==
    /\ 2 * rect[1] <= bbox[1] + bbox[3] /\ bbox[1] + bbox[3] <= 2 * rect[3]
    /\ 2 * rect[2] <= bbox[2] + bbox[4] /\ bbox[2] + bbox[4] <= 2 * rect[4]

InNoTable(bbox, tables) ==
    \A t \in 1..Len(tables) : ~CentreInside(bbox, tables[t].bbox)

\* The place of image i in ascending order of vertical centre, ties in list order.
RankOf(pool, i) ==
    1 + Cardinality({m \in 1..Len(pool) :
          \/ pool[m].bbox[2] + pool[m].bbox[4] < pool[i].bbox[2] + pool[i].bbox[4]
          \/ /\ pool[m].bbox[2] + pool[m].bbox[4] = pool[i].bbox[2] + pool[i].bbox[4]
             /\ m < i})

InOrder(pool) ==
    [j \in 1..Len(pool) |-> pool[CHOOSE i \in 1..Len(pool) : RankOf(pool, i) = j]]

\* The payload a markup row embeds in its column 0 cell, NoImg if none.
RowImage(row) == IF row.cells = <<>> THEN NoImg ELSE row.cells[1].img

EmbeddedCount(table) ==
    Cardinality({rc \in UNION {{<<r, c>> : c \in 1..Len(table[r].cells)} :
                                r \in 1..Len(table)} :
                    table[rc[1]].cells[rc[2]].img # NoImg})

RECURSIVE SumEmbedded(_)
SumEmbedded(tables) ==
    IF tables = <<>> THEN 0 ELSE EmbeddedCount(Head(tables)) + SumEmbedded(Tail(tables))

EmbeddedIn(data, tables) ==
    \E t \in 1..Len(tables) : \E r \in 1..Len(tables[t]) :
        \E c \in 1..Len(tables[t][r].cells) : tables[t][r].cells[c].img = data

\* The units emitted for page p, between its opening and its closing unit.
UnitsOfPage(p) ==
    LET opens == {i \in 1..Len(html_content) :
                     html_content[i].kind = "page" /\ html_content[i].number = p}
        ends == {i \in 1..Len(html_content) :
                    html_content[i].kind = "end" /\ html_content[i].number = p}
    IN  IF opens = {} \/ ends = {} THEN <<>>
        ELSE SubSeq(html_content, (CHOOSE i \in opens : TRUE) + 1,
                    (CHOOSE i \in ends : TRUE) - 1)

OfKind(units, kind) == SelectSeq(units, LAMBDA u : u.kind = kind)

RenderedStandalone(data, p) ==
    \E i \in 1..Len(OfKind(UnitsOfPage(p), "img")) :
        OfKind(UnitsOfPage(p), "img")[i].data = data

\* The pages whose content has been extracted and emitted.
EmittedPages ==
    {p \in 1..Len(pages_content) :
        \E i \in 1..Len(html_content) :
            html_content[i].kind = "end" /\ html_content[i].number = p}

NonEmptyTables(p) == SelectSeq(doc.pages[p].tables, LAMBDA t : t.rows # <<>>)

\* The number of data rows with at least one cell among the first k.
CellRowsUpTo(rows, k) == Cardinality({m \in 1..k : rows[m + 1] # <<>>})

\* ------------------------------------------------------------------- claims

\* C1: every image of a page's pool ends up in exactly one destination,
\* embedded in a table row or rendered as a standalone image, never both and
\* never neither.
C1_EveryImageExactlyOnce ==
    \A p \in EmittedPages : \A i \in 1..Len(page_images[p]) :
        EmbeddedIn(page_images[p][i].data, pages_content[p].tables)
            # RenderedStandalone(page_images[p][i].data, p)

\* C2: on every page the standalone images plus the images consumed by the
\* tables are at most the images of the pool.
C2_Conservation ==
    \A p \in 1..Len(pages_content) :
        Len(pages_content[p].images) + SumEmbedded(pages_content[p].tables)
            <= Len(page_images[p])

\* C3 as claimed: the k-th data row, whatever its cells, embeds the k-th
\* image in ascending order of vertical centre if there is one, else none.
C3_EveryDataRowInOrder ==
    \A p \in 1..Len(pages_content) : \A f \in 1..Len(pages_content[p].tables) :
        LET frag == pages_content[p].tables[f]
            pool == page_images[p]
        IN  \A k \in 1..(Len(frag) - 1) :
                RowImage(frag[k + 1]) =
                    IF k <= Len(pool) THEN InOrder(pool)[k].data ELSE NoImg

\* C3 as amended: the pool is ordered by ascending vertical centre, ties in
\* list order; the k-th data row that has at least one cell embeds the k-th
\* image of that order if there is one and none otherwise; a data row with no
\* cell embeds nothing and takes no image; an image is embedded only in a
\* column 0 cell of a data row, never in the header or in another column.
C3_CellRowsInOrder ==
    \A p \in 1..Len(pages_content) : \A f \in 1..Len(pages_content[p].tables) :
        LET frag == pages_content[p].tables[f]
            rows == NonEmptyTables(p)[f].rows
            pool == page_images[p]
        IN  /\ \A c \in 1..Len(frag[1].cells) : frag[1].cells[c].img = NoImg
            /\ \A k \in 1..(Len(frag) - 1) :
                 LET j == CellRowsUpTo(rows, k) IN
                 /\ RowImage(frag[k + 1]) =
                        IF rows[k + 1] # <<>> /\ j <= Len(pool)
                        THEN InOrder(pool)[j].data ELSE NoImg
                 /\ \A c \in 2..Len(frag[k + 1].cells) :
                        frag[k + 1].cells[c].img = NoImg

C3_Witness ==
    /\ pc = "content"
    /\ Len(tables_html) = 1
    /\ Len(page_images[page_num]) = 2
    /\ InOrder(page_images[page_num]) # page_images[page_num]
    /\ Len(tables_html[1]) = 3
    /\ RowImage(tables_html[1][2]) = InOrder(page_images[page_num])[1].data
    /\ RowImage(tables_html[1][3]) = InOrder(page_images[page_num])[2].data

\* C4: the standalone list of a page is the subsequence, in pool order, of
\* the images whose centre lies in no table bbox of the page, edges
\* inclusive, whatever the tables popped.
C4_StandaloneIsOutsideSubsequence ==
    /\ \A p \in 1..Len(pages_content) :
         pages_content[p].images =
            SelectSeq(page_images[p],
                      LAMBDA img : InNoTable(img.bbox, doc.pages[p].tables))
    /\ pc = "content" =>
         standalone_images =
            SelectSeq(page_images[page_num],
                      LAMBDA img : InNoTable(img.bbox, CurPage.tables))

\* An image with its centre on the edge of a table bbox is left out, and an
\* image that a table popped is standalone all the same.
C4_Witness ==
    /\ pc = "content"
    /\ \E i \in 1..Len(page_images[page_num]) : \E t \in 1..Len(CurPage.tables) :
         LET b == page_images[page_num][i].bbox
             r == CurPage.tables[t].bbox
         IN  /\ CentreInside(b, r)
             /\ b[1] + b[3] = 2 * r[1] \/ b[2] + b[4] = 2 * r[2]
             /\ \A j \in 1..Len(standalone_images) :
                    standalone_images[j] # page_images[page_num][i]
    /\ \E j \in 1..Len(standalone_images) :
         EmbeddedIn(standalone_images[j].data, tables_html)

KindRank(kind) ==
    CASE kind = "page" -> 0
      [] kind = "table" -> 1
      [] kind = "img" -> 2
      [] kind = "text" -> 3
      [] kind = "end" -> 4

PageUnits == OfKind(html_content, "page")

\* C5: the markup is one run of units per page, pages in input order; in a
\* page the table fragments come first in detection order, then the
\* standalone images whose payload occurs in no table fragment, in list
\* order, then the non-blank text blocks in source order.
C5_EmissionOrder ==
    /\ html_content # <<>> =>
         /\ html_content[1].kind = "page"
         /\ html_content[Len(html_content)].kind = "end"
    /\ \A i \in 1..(Len(html_content) - 1) :
         IF html_content[i].kind = "end"
         THEN html_content[i + 1].kind = "page"
         ELSE /\ html_content[i + 1].kind # "page"
              /\ KindRank(html_content[i].kind) <= KindRank(html_content[i + 1].kind)
    /\ Len(PageUnits) <= Len(pages_content)
    /\ \A j \in 1..Len(PageUnits) :
         /\ PageUnits[j].number = j
         /\ LET units == UnitsOfPage(j)
                page == pages_content[j]
                kept == SelectSeq(page.images,
                                  LAMBDA img : ~UsedInTables(img, page.tables))
            IN  /\ OfKind(units, "table") =
                      [t \in 1..Len(page.tables) |->
                          [kind |-> "table", table |-> page.tables[t]]]
                /\ OfKind(units, "img") =
                      [i \in 1..Len(kept) |->
                          [kind |-> "img", data |-> kept[i].data,
                           format |-> kept[i].format]]
                /\ OfKind(units, "text") = TextUnits(page.text)
    /\ pc \in {"write", "done"} => Len(PageUnits) = Len(doc.pages)

\* Two pages; one of them emits a table, then an image, then a text block,
\* and holds back a standalone image whose payload a table embeds.
C5_Witness ==
    /\ pc = "done"
    /\ Len(PageUnits) = 2
    /\ \E p \in 1..2 :
         /\ OfKind(UnitsOfPage(p), "table") # <<>>
         /\ OfKind(UnitsOfPage(p), "img") # <<>>
         /\ OfKind(UnitsOfPage(p), "text") # <<>>
         /\ \E i \in 1..Len(pages_content[p].images) :
                UsedInTables(pages_content[p].images[i], pages_content[p].tables)
    /\ \E p \in 1..2 :
         /\ Len(OfKind(UnitsOfPage(p), "img")) = 2
         /\ Len(OfKind(UnitsOfPage(p), "text")) = 2

\* C6 as claimed: as many table fragments as tables detected on the page.
C6_OneFragmentPerTable ==
    \A p \in 1..Len(pages_content) :
        Len(pages_content[p].tables) = Len(doc.pages[p].tables)

\* C6 as amended: one markup table per detected table that has at least one
\* row, in detection order, the header row first and the data rows in their
\* original order; a table whose header row is empty still produces a markup
\* table; a table with zero rows is skipped and produces none.
C6_OneFragmentPerNonEmptyTable ==
    \A p \in 1..Len(pages_content) :
        LET frags == pages_content[p].tables
            tables == NonEmptyTables(p)
        IN  /\ Len(frags) = Len(tables)
            /\ \A f \in 1..Len(frags) :
                 /\ Len(frags[f]) = Len(tables[f].rows)
                 /\ \A r \in 1..Len(frags[f]) :
                      /\ frags[f][r].kind = IF r = 1 THEN "th" ELSE "td"
                      /\ Len(frags[f][r].cells) = Len(tables[f].rows[r])
                      /\ \A c \in 1..Len(frags[f][r].cells) :
                           frags[f][r].cells[c].text =
                              IF tables[f].rows[r][c] \in {None, <<>>} THEN <<>>
                              ELSE Escape(tables[f].rows[r][c])

\* Two tables of which one has an empty header row and one has data rows
\* that differ: two fragments.
C6_Witness ==
    /\ pc = "content"
    /\ Len(CurPage.tables) = 2
    /\ Len(tables_html) = 2
    /\ \E f \in 1..2 : tables_html[f] = <<[kind |-> "th", cells |-> <<>>]>>
    /\ \E f \in 1..2 : Len(tables_html[f]) > 2

ImageLevelFailuresOnly ==
    /\ doc.exists
    /\ ~doc.open_fails
    /\ \A p \in 1..Len(doc.pages) : doc.pages[p].fail = "none"

UsableImages(page) == SelectSeq(page.image_list, LAMBDA raw : raw.outcome = "ok")

\* C7: when only images fail (to be extracted, decoded or encoded), the
\* conversion does not fail, and the pool of every page holds the other
\* images of the page in their original order.
C7_ImageFailureIsLocal ==
    ImageLevelFailuresOnly =>
        /\ pc # "failed"
        /\ \A p \in 1..Len(page_images) :
             /\ Len(page_images[p]) = Len(UsableImages(doc.pages[p]))
             /\ \A i \in 1..Len(page_images[p]) :
                  page_images[p][i].data = UsableImages(doc.pages[p])[i].data

ExtractionFails ==
    \/ doc.open_fails
    \/ \E p \in 1..Len(doc.pages) :
         \/ doc.pages[p].fail # "none"
         \/ \E i \in 1..Len(doc.pages[p].image_list) :
              doc.pages[p].image_list[i].outcome = "extract_error"

\* C8: when extraction fails on any page the caller gets one wrapped failure
\* and the output is never written; the output is written at most once, and
\* only with every page extracted and assembled.
C8_AtomicFailure ==
    /\ writes <= 1
    /\ ExtractionFails => writes = 0 /\ pc # "done" /\ pc # "write"
    /\ pc = "failed" =>
         /\ writes = 0
         /\ doc.exists => /\ ExtractionFails
                          /\ error[1] = "Error converting PDF to HTML"
                          /\ error[2] = "Error extracting PDF content"
    /\ pc # "failed" => error = NoError
    /\ writes = 1 =>
         /\ Len(OfKind(output_file, "end")) = Len(doc.pages)
         /\ run = 1 => output_file = html_content /\ Len(pages_content) = Len(doc.pages)

\* The second page fails after the first was extracted.
C8_Witness ==
    /\ pc = "failed"
    /\ Len(pages_content) = 1
    /\ page_num = 2
    /\ writes = 0

\* C9: table reconstruction leaves every pool as extracted, and the page
\* pipeline run a second time on the same pools emits the same markup.
C9_PoolKeptAndRepeatable ==
    /\ \A p \in 1..Len(page_images) :
         page_images[p] = extract_images_from_page(doc.pages[p]).images
    /\ run = 2 /\ pc = "done" => html_content = first_html

\* The second run is over; a table embedded an image and another image was
\* emitted standalone.
C9_Witness ==
    /\ run = 2
    /\ pc = "done"
    /\ \E p \in 1..Len(pages_content) : SumEmbedded(pages_content[p].tables) >= 1
    /\ OfKind(html_content, "img") # <<>>

\* A page with one table of a header row and n >= 1 data rows, and a pool of
\* exactly n images.
FullPoolPage(p) ==
    /\ Len(doc.pages[p].tables) = 1
    /\ Len(doc.pages[p].tables[1].rows) >= 2
    /\ Len(page_images[p]) = Len(doc.pages[p].tables[1].rows) - 1

EveryDataRowHasACell(p) ==
    \A r \in 2..Len(doc.pages[p].tables[1].rows) : doc.pages[p].tables[1].rows[r] # <<>>

====
